---- MODULE Spec2Model ----
(***************************************************************************)
(* Disk usage statistics: the threaded program (C++/diskstat.cpp) and the  *)
(* sequential program (C++/dirchk.cpp).                                    *)
(*                                                                         *)
(* Four specifications share the variables below:                          *)
(*   SpecAgg   one call of diskstat's get_disk_usage, one task per         *)
(*             subdirectory, interleaved step by step;                     *)
(*   Spec      diskstat's main loop with the status thread;                *)
(*   SpecFmt   format_size on 64-bit byte counts;                          *)
(*   SpecSort  print_sorted_extensions of both programs.                   *)
(***************************************************************************)
EXTENDS Integers, Sequences, FiniteSets, TLC

VARIABLES
    tree,         \* the directory tree on disk: a sequence of entries, tree[1] the root
    task,         \* SpecAgg: position of each get_disk_usage task (one per directory)
    idx,          \* SpecAgg: index of the entry the task's directory_iterator stands at
    jdx,          \* SpecAgg: index of the next future the task will get()
    total,        \* SpecAgg: the task's local total_size
    futures,      \* SpecAgg: the task's vector of futures (the subdirectories spawned)
    caught,       \* SpecAgg: the path of the filesystem_error the task caught (0: none)
    tmp,          \* SpecAgg: the value read from ext_usage[ext] inside the critical section
    ret,          \* SpecAgg: the value each finished task returned
    print_mutex,  \* owner of print_mutex (0: free)
    ext_usage,    \* map<string, uintmax_t> ext_usage
    error_logs,   \* vector<string> error_logs (each entry: the path the error names)
    pc,           \* Spec: position of main
    choice,       \* Spec: the menu choice read
    pathStatus,   \* Spec: what the entered path is
    token,        \* Spec: the last token read from cin, as typed
    restart,      \* Spec: the answer at the repeat prompt, after transform(..., ::tolower)
    open_file,    \* Spec: the answer at the open-the-log prompt, after transform
    total_size,   \* Spec: main's total_size
    log_file,     \* Spec: what has been written to the log file
    cerr,         \* Spec: what this pass of the loop wrote to cerr
    loading,      \* Spec: the global loading flag
    anim,         \* Spec: the animation thread
    animIdx,      \* Spec: the animation frame
    exitCode,     \* Spec: exit code of the process (-1: running)
    fsize,        \* SpecFmt: the byte count, as base-1024 digits, least significant first
    fout,         \* SpecFmt: what format_size returned
    sin,          \* SpecSort: the extension map handed to print_sorted_extensions
    sorder,       \* SpecSort: iteration order of dirchk's unordered_map
    sout,         \* SpecSort: lines printed by diskstat's print_sorted_extensions
    soutDirchk    \* SpecSort: lines printed by dirchk's print_sorted_extensions

aggVars == <<task, idx, jdx, total, futures, caught, tmp, ret, print_mutex>>
mapVars == <<ext_usage, error_logs>>
drvVars == <<pc, choice, pathStatus, token, restart, open_file, total_size, log_file, cerr,
             loading, anim, animIdx, exitCode>>
fmtVars == <<fsize, fout>>
sortVars == <<sin, sorder, sout, soutDirchk>>
vars == <<tree, aggVars, mapVars, drvVars, fmtVars, sortVars>>

----------------------------------------------------------------------------
(* Bounds of the model *)

MaxNodes == 4      \* entries of a tree, the root included
MaxFaults == 1     \* entries of a tree whose filesystem calls fail
MaxExtSize == 3    \* SpecSort: largest total of an extension

----------------------------------------------------------------------------
(* The filesystem *)

Exts == {".txt", ".log"}

\* The size of the i-th entry when it is a regular file.
FileSize(i) == i

Root == [parent |-> 0, kind |-> "dir", ext |-> "", size |-> 0, fault |-> "none"]

\* fault: "open" - directory_iterator(path) throws; "stat" - is_directory() throws;
\*        "size" - file_size() throws.
NumFaults(t) == Cardinality({i \in 1..Len(t) : t[i].fault # "none"})

\* The entries that can be created in tree t as entry Len(t)+1: a subdirectory or a
\* regular file of an existing directory, readable or not.
NewEntries(t) ==
    LET dirs == {p \in 1..Len(t) : t[p].kind = "dir"}
        faulty == IF NumFaults(t) < MaxFaults THEN {"stat"} ELSE {}
    IN
      {[parent |-> p, kind |-> "dir", ext |-> "", size |-> 0, fault |-> f] :
          p \in dirs, f \in {"none"} \cup faulty \cup {x \in {"open"} : faulty # {}}}
      \cup
      {[parent |-> p, kind |-> "file", ext |-> x, size |-> FileSize(Len(t) + 1), fault |-> f] :
          p \in dirs, x \in Exts, f \in {"none"} \cup faulty \cup {y \in {"size"} : faulty # {}}}

\* The root directory alone, readable or not.
Roots == {<<Root>>} \cup {<<[Root EXCEPT !.fault = "open"]>> : i \in 1..MaxFaults}

Nodes(t) == 1..Len(t)
Dirs(t) == {d \in Nodes(t) : t[d].kind = "dir"}

\* The entries of directory d in directory_iterator order.
RECURSIVE ChildrenFrom(_, _, _)
ChildrenFrom(t, d, i) ==
    IF i > Len(t) THEN <<>>
    ELSE IF t[i].parent = d THEN <<i>> \o ChildrenFrom(t, d, i + 1)
    ELSE ChildrenFrom(t, d, i + 1)

Children(t, d) == ChildrenFrom(t, d, 1)

Range(s) == {s[i] : i \in 1..Len(s)}

RECURSIVE SumSet(_, _)
SumSet(f, S) ==
    IF S = {} THEN 0
    ELSE LET x == CHOOSE y \in S : TRUE IN f[x] + SumSet(f, S \ {x})

SumMap(m) == SumSet(m, DOMAIN m)

EmptyMap == [x \in {} |-> 0]

\* ext_usage[ext] (operator[] default-constructs a missing key to 0)
MapGet(m, x) == IF x \in DOMAIN m THEN m[x] ELSE 0

MapPut(m, x, v) == [y \in (DOMAIN m) \cup {x} |-> IF y = x THEN v ELSE m[y]]

\* ext_usage[ext] += size
MapAdd(m, x, v) == MapPut(m, x, MapGet(m, x) + v)

----------------------------------------------------------------------------
(* diskstat.cpp get_disk_usage: one task per directory (std::async, launch::async) *)

\* lock_guard<mutex> lock(print_mutex) can be taken
MutexFreeBroken == TRUE
MutexFree == print_mutex = 0

\* total_size += f.get()
JoinAddDropped(tot, r) == tot
JoinAdd(tot, r) == tot + r

Entries(d) == Children(tree, d)
AtEntry(d) == task[d] = "loop" /\ idx[d] <= Len(Entries(d))
Cur(d) == tree[Entries(d)[idx[d]]]
CurId(d) == Entries(d)[idx[d]]

\* for (const auto &entry : fs::directory_iterator(path)): opening the directory
OpenDir(d) ==
    /\ task[d] = "open"
    /\ IF tree[d].fault = "open"
       THEN /\ task' = [task EXCEPT ![d] = "catch"]
            /\ caught' = [caught EXCEPT ![d] = d]
            /\ UNCHANGED idx
       ELSE /\ task' = [task EXCEPT ![d] = "loop"]
            /\ idx' = [idx EXCEPT ![d] = 1]
            /\ UNCHANGED caught
    /\ UNCHANGED <<jdx, total, futures, tmp, ret, print_mutex, mapVars>>
    /\ UNCHANGED <<tree, drvVars, fmtVars, sortVars>>

\* entry.is_directory() or entry.file_size() throws: control leaves the loop
EntryThrows(d) ==
    /\ AtEntry(d)
    /\ \/ Cur(d).fault = "stat"
       \/ Cur(d).kind = "file" /\ Cur(d).fault = "size"
    /\ task' = [task EXCEPT ![d] = "catch"]
    /\ caught' = [caught EXCEPT ![d] = CurId(d)]
    /\ UNCHANGED <<idx, jdx, total, futures, tmp, ret, print_mutex, mapVars>>
    /\ UNCHANGED <<tree, drvVars, fmtVars, sortVars>>

\* entry.is_directory(): futures.push_back(async(launch::async, get_disk_usage, ...))
SpawnSubdir(d) ==
    /\ AtEntry(d)
    /\ Cur(d).kind = "dir" /\ Cur(d).fault # "stat"
    /\ futures' = [futures EXCEPT ![d] = Append(@, CurId(d))]
    /\ task' = [task EXCEPT ![CurId(d)] = "open"]
    /\ idx' = [idx EXCEPT ![d] = @ + 1]
    /\ UNCHANGED <<jdx, total, caught, tmp, ret, print_mutex, mapVars>>
    /\ UNCHANGED <<tree, drvVars, fmtVars, sortVars>>

\* entry.is_regular_file(): size read, total_size += size, the lock taken and
\* ext_usage[ext] read
LockExt(d) ==
    /\ AtEntry(d)
    /\ Cur(d).kind = "file" /\ Cur(d).fault = "none"
    /\ MutexFree
    /\ print_mutex' = d
    /\ total' = [total EXCEPT ![d] = @ + Cur(d).size]
    /\ tmp' = [tmp EXCEPT ![d] = MapGet(ext_usage, Cur(d).ext)]
    /\ task' = [task EXCEPT ![d] = "cs"]
    /\ UNCHANGED <<idx, jdx, futures, caught, ret, mapVars>>
    /\ UNCHANGED <<tree, drvVars, fmtVars, sortVars>>

\* ext_usage[ext] written, the lock released, the iterator advanced
UnlockExt(d) ==
    /\ task[d] = "cs"
    /\ ext_usage' = MapPut(ext_usage, Cur(d).ext, tmp[d] + Cur(d).size)
    /\ print_mutex' = 0
    /\ idx' = [idx EXCEPT ![d] = @ + 1]
    /\ task' = [task EXCEPT ![d] = "loop"]
    /\ UNCHANGED <<jdx, total, futures, caught, tmp, ret, error_logs>>
    /\ UNCHANGED <<tree, drvVars, fmtVars, sortVars>>

\* the directory_iterator reached its end
EndLoop(d) ==
    /\ task[d] = "loop" /\ idx[d] > Len(Entries(d))
    /\ task' = [task EXCEPT ![d] = "join"]
    /\ jdx' = [jdx EXCEPT ![d] = 1]
    /\ UNCHANGED <<idx, total, futures, caught, tmp, ret, print_mutex, mapVars>>
    /\ UNCHANGED <<tree, drvVars, fmtVars, sortVars>>

\* total_size += f.get(): blocks until the subdirectory's task has returned
JoinFuture(d) ==
    /\ task[d] = "join" /\ jdx[d] <= Len(futures[d])
    /\ task[futures[d][jdx[d]]] = "done"
    /\ total' = [total EXCEPT ![d] = JoinAdd(@, ret[futures[d][jdx[d]]])]
    /\ jdx' = [jdx EXCEPT ![d] = @ + 1]
    /\ UNCHANGED <<task, idx, futures, caught, tmp, ret, print_mutex, mapVars>>
    /\ UNCHANGED <<tree, drvVars, fmtVars, sortVars>>

EndJoin(d) ==
    /\ task[d] = "join" /\ jdx[d] > Len(futures[d])
    /\ task' = [task EXCEPT ![d] = "ret"]
    /\ UNCHANGED <<idx, jdx, total, futures, caught, tmp, ret, print_mutex, mapVars>>
    /\ UNCHANGED <<tree, drvVars, fmtVars, sortVars>>

\* catch (const fs::filesystem_error &e): error_logs.push_back(e.what()) under the lock
CatchError(d) ==
    /\ task[d] = "catch"
    /\ MutexFree
    /\ error_logs' = Append(error_logs, caught[d])
    /\ task' = [task EXCEPT ![d] = "ret"]
    /\ UNCHANGED <<idx, jdx, total, futures, caught, tmp, ret, print_mutex, ext_usage>>
    /\ UNCHANGED <<tree, drvVars, fmtVars, sortVars>>

\* return total_size: the destructor of `futures` blocks until every task spawned
\* with launch::async has finished, joined or not
Return(d) ==
    /\ task[d] = "ret"
    /\ \A c \in Range(futures[d]) : task[c] = "done"
    /\ ret' = [ret EXCEPT ![d] = total[d]]
    /\ task' = [task EXCEPT ![d] = "done"]
    /\ UNCHANGED <<idx, jdx, total, futures, caught, tmp, print_mutex, mapVars>>
    /\ UNCHANGED <<tree, drvVars, fmtVars, sortVars>>

DrvIdle ==
    /\ pc = "off" /\ choice = 0 /\ pathStatus = "none" /\ token = <<>> /\ restart = <<>>
    /\ open_file = <<>> /\ total_size = 0 /\ log_file = <<>> /\ cerr = <<>>
    /\ loading = FALSE /\ anim = "none" /\ animIdx = 0 /\ exitCode = -1

FmtIdle == fsize = <<>> /\ fout = <<>>

SortIdle == sin = EmptyMap /\ sorder = <<>> /\ sout = <<>> /\ soutDirchk = <<>>

AggIdle ==
    /\ task = <<>> /\ idx = <<>> /\ jdx = <<>> /\ total = <<>> /\ futures = <<>>
    /\ caught = <<>> /\ tmp = <<>> /\ ret = <<>> /\ print_mutex = 0

\* get_disk_usage as one call returns it: the tasks run one after the other in spawn
\* order. `pend` holds what the join loop (lines 83-86) will add; an exception in the
\* entry loop leaves through the catch clause and skips the join loop.
RECURSIVE get_disk_usage(_, _, _, _)
RECURSIVE get_disk_usage_loop(_, _, _, _, _, _, _)
get_disk_usage_loop(t, d, i, tot, pend, ext, errs) ==
    LET es == Children(t, d) IN
    IF i > Len(es) THEN [size |-> JoinAdd(tot, pend), ext |-> ext, errs |-> errs]
    ELSE LET n == es[i] IN
         IF t[n].fault = "stat" \/ (t[n].kind = "file" /\ t[n].fault = "size")
         THEN [size |-> tot, ext |-> ext, errs |-> Append(errs, n)]
         ELSE IF t[n].kind = "dir"
         THEN LET r == get_disk_usage(t, n, ext, errs) IN
              get_disk_usage_loop(t, d, i + 1, tot, pend + r.size, r.ext, r.errs)
         ELSE get_disk_usage_loop(t, d, i + 1, tot + t[n].size, pend,
                                  MapAdd(ext, t[n].ext, t[n].size), errs)

get_disk_usage(t, d, ext, errs) ==
    IF t[d].fault = "open"
    THEN [size |-> 0, ext |-> ext, errs |-> Append(errs, d)]
    ELSE get_disk_usage_loop(t, d, 1, 0, 0, ext, errs)

----------------------------------------------------------------------------
(* dirchk.cpp get_disk_usage: sequential, one DiskUsage per call *)

\* for (const auto& [ext, size] : sub_dir_usage.ext_usage) du.ext_usage[ext] += size;
RECURSIVE MergeInto(_, _, _)
MergeInto(m, sub, keys) ==
    IF keys = {} THEN m
    ELSE LET k == CHOOSE x \in keys : TRUE IN
         MergeInto(MapAdd(m, k, sub[k]), sub, keys \ {k})

RECURSIVE dirchk_get_disk_usage(_, _, _)
RECURSIVE dirchk_loop(_, _, _, _, _)
dirchk_loop(t, d, i, du, errs) ==
    LET es == Children(t, d) IN
    IF i > Len(es) THEN [size |-> du.size, ext_usage |-> du.ext_usage, errs |-> errs]
    ELSE LET n == es[i] IN
         IF t[n].fault = "stat" \/ (t[n].kind = "file" /\ t[n].fault = "size")
         THEN [size |-> du.size, ext_usage |-> du.ext_usage, errs |-> Append(errs, n)]
         ELSE IF t[n].kind = "dir"
         THEN LET sub == dirchk_get_disk_usage(t, n, errs) IN
              dirchk_loop(t, d, i + 1,
                          [size |-> du.size + sub.size,
                           ext_usage |-> MergeInto(du.ext_usage, sub.ext_usage,
                                                   DOMAIN sub.ext_usage)],
                          sub.errs)
         ELSE dirchk_loop(t, d, i + 1,
                          [size |-> du.size + t[n].size,
                           ext_usage |-> MapAdd(du.ext_usage, t[n].ext, t[n].size)],
                          errs)

dirchk_get_disk_usage(t, d, errs) ==
    IF t[d].fault = "open"
    THEN [size |-> 0, ext_usage |-> EmptyMap, errs |-> Append(errs, d)]
    ELSE dirchk_loop(t, d, 1, [size |-> 0, ext_usage |-> EmptyMap], errs)

\* dirchk.cpp print_tree_view: the error lines it (and the get_disk_usage it calls)
\* writes to cerr; the whole entry loop is inside one try
RECURSIVE dirchk_print_tree_view(_, _, _)
RECURSIVE dirchk_print_tree_entries(_, _, _, _)
dirchk_print_tree_entries(t, d, i, errs) ==
    LET es == Children(t, d) IN
    IF i > Len(es) THEN errs
    ELSE IF t[es[i]].fault = "stat" THEN Append(errs, es[i])
    ELSE IF t[es[i]].kind = "dir"
    THEN dirchk_print_tree_entries(t, d, i + 1, dirchk_print_tree_view(t, es[i], errs))
    ELSE dirchk_print_tree_entries(t, d, i + 1, errs)

dirchk_print_tree_view(t, d, errs) ==
    LET du == dirchk_get_disk_usage(t, d, errs) IN
    IF t[d].fault = "open" THEN Append(du.errs, d)
    ELSE dirchk_print_tree_entries(t, d, 1, du.errs)

\* dirchk.cpp main, lines 106-111: the total, the map handed to
\* print_sorted_extensions and the error lines written
dirchk_main(t) ==
    LET du == dirchk_get_disk_usage(t, 1, <<>>) IN
    [size |-> du.size, ext_usage |-> du.ext_usage,
     errs |-> dirchk_print_tree_view(t, 1, du.errs)]

----------------------------------------------------------------------------
(* SpecAgg: the filesystem is populated, then get_disk_usage runs on the root *)

\* The environment creates an entry before the walk starts.
CreateEntry ==
    /\ task = <<>>
    /\ Len(tree) < MaxNodes
    /\ \E e \in NewEntries(tree) : tree' = Append(tree, e)
    /\ UNCHANGED <<aggVars, mapVars>>
    /\ UNCHANGED <<drvVars, fmtVars, sortVars>>

\* get_disk_usage(path, ext_usage, error_logs) is called on the root
CallRoot ==
    /\ task = <<>>
    /\ task' = [d \in Nodes(tree) |-> IF d = 1 THEN "open" ELSE "idle"]
    /\ idx' = [d \in Nodes(tree) |-> 0]
    /\ jdx' = [d \in Nodes(tree) |-> 0]
    /\ total' = [d \in Nodes(tree) |-> 0]
    /\ futures' = [d \in Nodes(tree) |-> <<>>]
    /\ caught' = [d \in Nodes(tree) |-> 0]
    /\ tmp' = [d \in Nodes(tree) |-> 0]
    /\ ret' = [d \in Nodes(tree) |-> 0]
    /\ UNCHANGED <<tree, print_mutex, mapVars>>
    /\ UNCHANGED <<drvVars, fmtVars, sortVars>>

InitAgg ==
    /\ tree \in Roots
    /\ AggIdle
    /\ ext_usage = EmptyMap
    /\ error_logs = <<>>
    /\ DrvIdle /\ FmtIdle /\ SortIdle

NextAgg ==
    \/ CreateEntry
    \/ CallRoot
    \/ \E d \in DOMAIN task : OpenDir(d)
    \/ \E d \in DOMAIN task : EntryThrows(d)
    \/ \E d \in DOMAIN task : SpawnSubdir(d)
    \/ \E d \in DOMAIN task : LockExt(d)
    \/ \E d \in DOMAIN task : UnlockExt(d)
    \/ \E d \in DOMAIN task : EndLoop(d)
    \/ \E d \in DOMAIN task : JoinFuture(d)
    \/ \E d \in DOMAIN task : EndJoin(d)
    \/ \E d \in DOMAIN task : CatchError(d)
    \/ \E d \in DOMAIN task : Return(d)

SpecAgg == InitAgg /\ [][NextAgg]_vars

----------------------------------------------------------------------------
(* format_size (the same code in both programs) *)

\* A uintmax_t byte count is held as its seven base-1024 digits, least significant
\* first (2^64 = 16 * 1024^6, so the seventh digit is at most 15); a double holding
\* an integer below 2^65 is held the same way, and k divisions by 1024 as a shift.
Base == 1024
NumDigits == 7
MantissaBits == 53
LastUnit == 5

units == <<"B", "KB", "MB", "GB", "TB", "PB">>

DigitVals == {0, 1, 15, 512, 1023}

BitLen(x) == IF x = 0 THEN 0 ELSE CHOOSE b \in 1..10 : 2^(b - 1) <= x /\ x < 2^b

TopDigit(ds) ==
    IF \A i \in 1..NumDigits : ds[i] = 0 THEN 0
    ELSE CHOOSE i \in 1..NumDigits : ds[i] # 0 /\ \A j \in (i + 1)..NumDigits : ds[j] = 0

RECURSIVE Carry(_, _, _)
Carry(ds, i, c) ==
    IF c = 0 THEN ds
    ELSE IF i = NumDigits THEN [ds EXCEPT ![i] = @ + c]
    ELSE Carry([ds EXCEPT ![i] = (@ + c) % Base], i + 1, (ds[i] + c) \div Base)

\* static_cast<double>(size): round to nearest, ties to even, at 53 significant bits
to_double(ds) ==
    LET t == TopDigit(ds)
        len == IF t = 0 THEN 0 ELSE 10 * (t - 1) + BitLen(ds[t])
        r == len - MantissaBits
    IN IF r <= 0 THEN ds
       ELSE LET w == ds[1] + Base * ds[2]
                low == w % (2^r)
                lsb == (w \div (2^r)) % 2
                up == low > 2^(r - 1) \/ (low = 2^(r - 1) /\ lsb = 1)
                w2 == w - low + (IF up THEN 2^r ELSE 0)
            IN Carry([ds EXCEPT ![1] = w2 % Base, ![2] = (w2 \div Base) % Base],
                     3, w2 \div (Base * Base))

\* converted_size >= 1024, converted_size being ds / 1024^shift
AtLeast1024Strict(ds, shift) ==
    /\ \E i \in (shift + 2)..NumDigits : ds[i] # 0
    /\ ~(/\ ds[shift + 2] = 1
         /\ \A i \in 1..NumDigits : i # shift + 2 => ds[i] = 0)
AtLeast1024(ds, shift) == \E i \in (shift + 2)..NumDigits : ds[i] # 0

\* while (converted_size >= 1024 && unit_index < units.size() - 1)
\*     { converted_size /= 1024; ++unit_index; }
RECURSIVE ScaleLoop(_, _, _)
ScaleLoop(ds, shift, unit_index) ==
    IF AtLeast1024(ds, shift) /\ unit_index < Len(units) - 1
    THEN ScaleLoop(ds, shift + 1, unit_index + 1)
    ELSE [shift |-> shift, unit_index |-> unit_index]

\* The integer part of ds / 1024^shift.
RECURSIVE WholePart(_, _, _)
WholePart(ds, shift, i) ==
    IF i > NumDigits THEN 0
    ELSE (IF ds[i] = 0 THEN 0 ELSE ds[i] * Base^(i - 1 - shift)) + WholePart(ds, shift, i + 1)

\* 100 * (the fractional part of ds / 1024^shift): its integer part h, and how the
\* rest compares with one half.
RECURSIVE Hundredths(_, _, _, _, _)
Hundredths(ds, shift, i, carry, lowNonZero) ==
    IF i > shift
    THEN [h |-> carry, cmp |-> "below"]
    ELSE LET v == ds[i] * 100 + carry IN
         IF i = shift
         THEN [h |-> v \div Base,
               cmp |-> IF v % Base > Base \div 2 \/ (v % Base = Base \div 2 /\ lowNonZero)
                       THEN "above"
                       ELSE IF v % Base = Base \div 2 THEN "half" ELSE "below"]
         ELSE Hundredths(ds, shift, i + 1, v \div Base, lowNonZero \/ v % Base # 0)

\* out << fixed << setprecision(2) << converted_size << " " << units[unit_index]
\* crt: how the C runtime prints an exact tie ("even": IEEE, "away": older runtimes)
Render(ds, shift, unit_index, crt) ==
    LET f == Hundredths(ds, shift, 1, 0, FALSE)
        up == f.cmp = "above" \/ (f.cmp = "half" /\ (crt = "away" \/ f.h % 2 = 1))
        h == IF up THEN f.h + 1 ELSE f.h
        w == WholePart(ds, shift, shift + 1)
    IN [whole |-> IF h = 100 THEN w + 1 ELSE w,
        hundredths |-> IF h = 100 THEN 0 ELSE h,
        unit |-> units[unit_index + 1],
        unit_index |-> unit_index,
        divisions |-> shift]

format_size(size, crt) ==
    LET converted_size == to_double(size)
        s == ScaleLoop(converted_size, 0, 0)
    IN Render(converted_size, s.shift, s.unit_index, crt)

InitFmt ==
    /\ fsize \in [1..NumDigits -> DigitVals]
    /\ fsize[NumDigits] <= 15
    /\ fout = <<>>
    /\ tree = <<Root>> /\ AggIdle /\ ext_usage = EmptyMap /\ error_logs = <<>>
    /\ DrvIdle /\ SortIdle

FormatSize ==
    /\ fout = <<>>
    /\ \E crt \in {"even", "away"} : fout' = format_size(fsize, crt)
    /\ UNCHANGED <<fsize, tree, aggVars, mapVars, drvVars, sortVars>>

NextFmt == FormatSize

SpecFmt == InitFmt /\ [][NextFmt]_vars

\* The digits of 1024^k.
Pow1024(k) == [i \in 1..NumDigits |-> IF i = k + 1 THEN 1 ELSE 0]

\* The digits of a count below 1024.
Small(n) == [i \in 1..NumDigits |-> IF i = 1 THEN n ELSE 0]

\* 1024^k <= the count ds
AtLeastPow(ds, k) == TopDigit(ds) >= k + 1

\* C7: format_size divides by 1024 exactly k times, k the largest value in 0..5 with
\* 1024^k <= the byte count (0 below 1024), and labels the result with unit k of
\* B, KB, MB, GB, TB, PB; the unit index never exceeds 5: 1024^6 is printed as
\* 1024.00 PB and 1024^5 as 1.00 PB.
C7_UnitIndex ==
    fout # <<>> =>
        LET k == CHOOSE j \in 0..LastUnit :
                    /\ j = 0 \/ AtLeastPow(fsize, j)
                    /\ \A m \in (j + 1)..LastUnit : ~AtLeastPow(fsize, m)
        IN /\ fout.divisions = k
           /\ fout.unit_index = k
           /\ fout.unit_index <= LastUnit
           /\ fout.unit = units[k + 1]
           /\ fsize = Pow1024(6) =>
                fout.whole = 1024 /\ fout.hundredths = 0 /\ fout.unit = "PB"
           /\ fsize = Pow1024(5) =>
                fout.whole = 1 /\ fout.hundredths = 0 /\ fout.unit = "PB"
           /\ fsize = Pow1024(1) =>
                fout.whole = 1 /\ fout.hundredths = 0 /\ fout.unit = "KB"
           /\ fsize = Small(1023) =>
                fout.whole = 1023 /\ fout.hundredths = 0 /\ fout.unit = "B"
           /\ fsize = Small(0) =>
                fout.whole = 0 /\ fout.hundredths = 0 /\ fout.unit = "B"

\* 1024^6 has been formatted: five divisions, 1024 left, labelled PB.
C7_Witness ==
    /\ fout # <<>>
    /\ fsize = Pow1024(6)
    /\ fout.divisions = 5 /\ fout.whole = 1024 /\ fout.unit = "PB"

----------------------------------------------------------------------------
(* print_sorted_extensions *)

\* The extension strings in std::string order (the iteration order of std::map).
ExtOrder == <<"", ".log", ".txt">>

\* vector<pair<string, uintmax_t>> sorted_ext_usage(ext_usage.begin(), ext_usage.end())
RECURSIVE MapToVector(_, _)
MapToVector(m, i) ==
    IF i > Len(ExtOrder) THEN <<>>
    ELSE (IF ExtOrder[i] \in DOMAIN m
          THEN <<[ext |-> ExtOrder[i], size |-> m[ExtOrder[i]]]>>
          ELSE <<>>) \o MapToVector(m, i + 1)

\* the comparator [](a, b) { return b.second < a.second; }
Comp(a, b) == b.size < a.size

\* std::sort on a range this short is an insertion sort: each element moves left
\* past the elements the comparator puts after it.
RECURSIVE LinearInsert(_, _, _)
LinearInsert(s, val, j) ==
    IF j >= 1 /\ Comp(val, s[j])
    THEN LinearInsert(s, val, j - 1)
    ELSE SubSeq(s, 1, j) \o <<val>> \o SubSeq(s, j + 1, Len(s))

RECURSIVE InsertionSort(_, _, _)
InsertionSort(v, i, done) ==
    IF i > Len(v) THEN done
    ELSE InsertionSort(v, i + 1, LinearInsert(done, v[i], Len(done)))

\* The line "ext: format_size(size)" (totals below 1024 bytes here).
Line(e) == [ext |-> e.ext, size |-> e.size,
            text |-> format_size([i \in 1..NumDigits |-> IF i = 1 THEN e.size ELSE 0], "even")]

\* diskstat.cpp print_sorted_extensions: the lines after the heading
print_sorted_extensions(m) ==
    LET sorted_ext_usage == InsertionSort(MapToVector(m, 1), 1, <<>>) IN
    [i \in 1..Len(sorted_ext_usage) |-> Line(sorted_ext_usage[i])]

\* dirchk.cpp print_sorted_extensions: std::map<uintmax_t, string, greater<>>
\* sorted_ext, filled in the unordered_map's iteration order; insert() leaves the
\* map alone when the key (the size) is already present.
RECURSIVE dirchk_sorted_ext(_, _, _, _)
dirchk_sorted_ext(m, order, i, sorted_ext) ==
    IF i > Len(order) THEN sorted_ext
    ELSE dirchk_sorted_ext(m, order, i + 1,
             IF m[order[i]] \in DOMAIN sorted_ext THEN sorted_ext
             ELSE MapPut(sorted_ext, m[order[i]], order[i]))

\* for (const auto& [size, ext] : sorted_ext): keys in decreasing order
RECURSIVE Descending(_, _)
Descending(sorted_ext, keys) ==
    IF keys = {} THEN <<>>
    ELSE LET k == CHOOSE x \in keys : \A y \in keys : y <= x IN
         <<Line([ext |-> sorted_ext[k], size |-> k])>> \o Descending(sorted_ext, keys \ {k})

dirchk_print_sorted_extensions(m, order) ==
    LET sorted_ext == dirchk_sorted_ext(m, order, 1, EmptyMap) IN
    Descending(sorted_ext, DOMAIN sorted_ext)

IterationOrders(S) ==
    {p \in [1..Cardinality(S) -> S] : \A i, j \in 1..Cardinality(S) : i # j => p[i] # p[j]}

NotPrinted == [printed |-> FALSE, lines |-> <<>>]

ExtMaps == UNION {[D -> 1..MaxExtSize] : D \in SUBSET Range(ExtOrder)}

InitSort ==
    /\ sin \in ExtMaps
    /\ sorder \in IterationOrders(DOMAIN sin)
    /\ sout = NotPrinted /\ soutDirchk = NotPrinted
    /\ tree = <<Root>> /\ AggIdle /\ ext_usage = EmptyMap /\ error_logs = <<>>
    /\ DrvIdle /\ FmtIdle

PrintSorted ==
    /\ ~sout.printed
    /\ sout' = [printed |-> TRUE, lines |-> print_sorted_extensions(sin)]
    /\ UNCHANGED <<sin, sorder, soutDirchk, tree, aggVars, mapVars, drvVars, fmtVars>>

PrintSortedDirchk ==
    /\ ~soutDirchk.printed
    /\ soutDirchk' = [printed |-> TRUE, lines |-> dirchk_print_sorted_extensions(sin, sorder)]
    /\ UNCHANGED <<sin, sorder, sout, tree, aggVars, mapVars, drvVars, fmtVars>>

NextSort == PrintSorted \/ PrintSortedDirchk

SpecSort == InitSort /\ [][NextSort]_vars

\* The lines list every entry of the map exactly once.
IsRearrangement(lines, m) ==
    /\ Len(lines) = Cardinality(DOMAIN m)
    /\ \A x \in DOMAIN m :
          \E i \in 1..Len(lines) : lines[i].ext = x /\ lines[i].size = m[x]

NonIncreasing(lines) ==
    \A i, j \in 1..Len(lines) : i < j => lines[i].size >= lines[j].size

\* C4: the lines print_sorted_extensions emits list every entry of the map exactly
\* once, none dropped, in non-increasing order of size, also when two extensions
\* have the same total (stated for both programs).
C4_AllEntriesSorted ==
    /\ sout.printed => IsRearrangement(sout.lines, sin) /\ NonIncreasing(sout.lines)
    /\ soutDirchk.printed =>
          IsRearrangement(soutDirchk.lines, sin) /\ NonIncreasing(soutDirchk.lines)

\* What holds of diskstat's reporter alone.
C4_DiskstatSorted ==
    sout.printed => IsRearrangement(sout.lines, sin) /\ NonIncreasing(sout.lines)

----------------------------------------------------------------------------
(* diskstat.cpp print_tree_view *)

\* percentage = total_size > 0 ? (size * 100.0) / total_size : 0, before it is printed
Percentage(size, tot) == IF tot > 0 THEN <<size * 100, tot>> ELSE <<0, 1>>

\* Returns the map, the errors, the lines written and whether a filesystem_error
\* left the function (fs::is_directory(entry) at line 131 is outside every try).
RECURSIVE print_tree_view(_, _, _, _, _, _)
RECURSIVE print_tree_entries(_, _, _, _, _, _, _, _)
print_tree_entries(t, entries, i, tot, ext, errs, lines, d) ==
    IF i > Len(entries)
    THEN [ext |-> ext, errs |-> errs, lines |-> lines, thrown |-> FALSE]
    ELSE LET n == entries[i] IN
         IF t[n].fault = "stat"
         THEN [ext |-> ext, errs |-> errs, lines |-> lines, thrown |-> TRUE]
         ELSE IF t[n].kind = "dir"
         THEN LET r == print_tree_view(t, n, tot, ext, errs, lines) IN
              IF r.thrown THEN r
              ELSE print_tree_entries(t, entries, i + 1, tot, r.ext, r.errs, r.lines, d)
         ELSE IF t[n].fault = "size"
         THEN print_tree_entries(t, entries, i + 1, tot, ext, Append(errs, n), lines, d)
         ELSE print_tree_entries(t, entries, i + 1, tot, ext, errs,
                  Append(lines, [kind |-> "file", node |-> n, size |-> t[n].size,
                                 percentage |-> Percentage(t[n].size, tot)]), d)

print_tree_view(t, d, tot, ext, errs, lines) ==
    LET r == get_disk_usage(t, d, ext, errs)
        line == [kind |-> "dir", node |-> d, size |-> r.size,
                 percentage |-> Percentage(r.size, tot)]
    IN IF t[d].fault = "open"
       THEN [ext |-> r.ext, errs |-> Append(r.errs, d), lines |-> Append(lines, line),
             thrown |-> FALSE]
       ELSE print_tree_entries(t, Children(t, d), 1, tot, r.ext, r.errs,
                               Append(lines, line), d)

\* log_errors: the lines after "Error Summary:" (size: one line each)
RECURSIVE log_errors(_, _)
log_errors(errs, i) ==
    IF i > Len(errs) THEN <<>>
    ELSE <<[kind |-> "error", node |-> errs[i], size |-> 1, percentage |-> <<0, 1>>]>>
         \o log_errors(errs, i + 1)

\* the extension report as log lines
RECURSIVE ExtLines(_, _)
ExtLines(ls, i) ==
    IF i > Len(ls) THEN <<>>
    ELSE <<[kind |-> "ext", node |-> ls[i].ext, size |-> ls[i].size,
            percentage |-> <<0, 1>>]>> \o ExtLines(ls, i + 1)

----------------------------------------------------------------------------
(* diskstat.cpp main and loading_animation_with_timer *)

\* ::tolower on the characters the answers use
ToLowerChar(c) ==
    CASE c = "Y" -> "y" [] c = "E" -> "e" [] c = "S" -> "s"
      [] c = "N" -> "n" [] c = "O" -> "o" [] c = "Q" -> "q"
      [] OTHER -> c

\* transform(s.begin(), s.end(), s.begin(), ::tolower)
ToLower(str) == [i \in 1..Len(str) |-> ToLowerChar(str[i])]

Answers ==
    {<<"y">>, <<"Y">>, <<"n">>, <<"N">>,
     <<"y", "e", "s">>, <<"Y", "E", "S">>, <<"Y", "e", "s">>,
     <<"n", "o">>, <<"N", "O">>, <<"N", "o">>, <<"q">>, <<"Q">>}

\* if (restart == "y")
IsRestartYes(str) == str = <<"y">>

\* else if (restart == "n")
IsRestartNo(str) == str = <<"n">>

\* if (open_file == "y" || open_file == "yes")
IsOpenYes(str) == str = <<"y">> \/ str = <<"y", "e", "s">>

\* The local variables of one pass of the inner loop are gone.
LocalsGone ==
    /\ pathStatus' = "none" /\ open_file' = <<>> /\ restart' = <<>>
    /\ total_size' = 0 /\ log_file' = <<>>
    /\ ext_usage' = EmptyMap /\ error_logs' = <<>>

\* The environment creates an entry while the program waits for a path.
DrvCreateEntry ==
    /\ pc = "PromptPath"
    /\ Len(tree) < MaxNodes
    /\ \E e \in NewEntries(tree) : tree' = Append(tree, e)
    /\ UNCHANGED <<aggVars, mapVars, drvVars>>
    /\ UNCHANGED <<fmtVars, sortVars>>

\* cin >> choice (lines 239-241, 360-370)
ReadChoice ==
    /\ pc = "Menu"
    /\ \E c \in {1, 2, 3} :
          /\ choice' = c
          /\ token' = <<c>>
          /\ pc' = IF c = 1 THEN "PromptPath" ELSE IF c = 2 THEN "Exited" ELSE "Menu"
          /\ exitCode' = IF c = 2 THEN 0 ELSE exitCode
    /\ UNCHANGED <<pathStatus, restart, open_file, total_size, log_file, cerr, loading,
                   anim, animIdx, tree, aggVars, mapVars>>
    /\ UNCHANGED <<fmtVars, sortVars>>

\* cin >> path; fs::exists(path) && fs::is_directory(path) (lines 253-254, 328-331):
\* status "dir" is the root of the tree, "file" and "missing" are other paths,
\* "error" is a path whose status cannot be read (fs::exists throws).
\* Then lines 257-285: the log directory, the log file, the animation thread.
EnterPath ==
    /\ pc = "PromptPath"
    /\ token' = <<"path">>
    /\ \E st \in {"dir", "file", "missing", "error"}, mkdirThrows, logOpens \in BOOLEAN :
          /\ st # "dir" => ~mkdirThrows /\ logOpens
          /\ pathStatus' = st
          /\ IF st = "error" \/ (st = "dir" /\ mkdirThrows)
             THEN \* no handler: the exception leaves main
                  /\ pc' = "Terminated"
                  /\ UNCHANGED <<cerr, loading, anim>>
             ELSE IF st # "dir"
             THEN /\ cerr' = <<"Invalid directory path">>
                  /\ pc' = "PromptRepeat"
                  /\ UNCHANGED <<loading, anim>>
             ELSE IF ~logOpens
             THEN /\ cerr' = <<"Could not open log file">>
                  /\ pc' = "PromptPathAgain"
                  /\ UNCHANGED <<loading, anim>>
             ELSE /\ cerr' = <<>>
                  /\ loading' = TRUE
                  /\ anim' = "running"
                  /\ pc' = "DiskInfo"
    /\ ext_usage' = EmptyMap /\ error_logs' = <<>> /\ log_file' = <<>>
    /\ UNCHANGED <<choice, restart, open_file, total_size, animIdx, exitCode, tree, aggVars>>
    /\ UNCHANGED <<fmtVars, sortVars>>

\* continue (line 276): the next pass of the inner loop
ContinueLoop ==
    /\ pc = "PromptPathAgain"
    /\ pc' = "PromptPath"
    /\ LocalsGone
    /\ cerr' = <<>>
    /\ UNCHANGED <<choice, token, loading, anim, animIdx, exitCode, tree, aggVars>>
    /\ UNCHANGED <<fmtVars, sortVars>>

\* print_disk_info(path, log_file)
PrintDiskInfo ==
    /\ pc = "DiskInfo"
    /\ \E ok \in BOOLEAN :
          log_file' = Append(log_file,
                             [kind |-> IF ok THEN "disk info" ELSE "disk info error",
                              node |-> 1, size |-> 0, percentage |-> <<0, 1>>])
    /\ pc' = "Aggregate"
    /\ UNCHANGED <<choice, pathStatus, token, restart, open_file, total_size, cerr, loading,
                   anim, animIdx, exitCode, tree, aggVars, mapVars>>
    /\ UNCHANGED <<fmtVars, sortVars>>

\* uintmax_t total_size = get_disk_usage(path, ext_usage, error_logs): the call as a
\* whole (SpecAgg runs it task by task; C9_InterleavingIndependent ties the two)
Aggregate ==
    /\ pc = "Aggregate"
    /\ LET r == get_disk_usage(tree, 1, ext_usage, error_logs) IN
          /\ total_size' = r.size
          /\ ext_usage' = r.ext
          /\ error_logs' = r.errs
    /\ pc' = "TreeView"
    /\ UNCHANGED <<choice, pathStatus, token, restart, open_file, log_file, cerr, loading,
                   anim, animIdx, exitCode, tree, aggVars>>
    /\ UNCHANGED <<fmtVars, sortVars>>

\* print_tree_view(path, 0, total_size, log_file, ext_usage, error_logs)
TreeView ==
    /\ pc = "TreeView"
    /\ LET r == print_tree_view(tree, 1, total_size, ext_usage, error_logs, log_file) IN
          /\ ext_usage' = r.ext
          /\ error_logs' = r.errs
          /\ log_file' = r.lines
          /\ pc' = IF r.thrown THEN "Terminated" ELSE "Extensions"
    /\ UNCHANGED <<choice, pathStatus, token, restart, open_file, total_size, cerr, loading,
                   anim, animIdx, exitCode, tree, aggVars>>
    /\ UNCHANGED <<fmtVars, sortVars>>

\* print_sorted_extensions(ext_usage, log_file)
Extensions ==
    /\ pc = "Extensions"
    /\ log_file' = log_file \o ExtLines(print_sorted_extensions(ext_usage), 1)
    /\ pc' = "LogErrors"
    /\ UNCHANGED <<choice, pathStatus, token, restart, open_file, total_size, cerr, loading,
                   anim, animIdx, exitCode, tree, aggVars, mapVars>>
    /\ UNCHANGED <<fmtVars, sortVars>>

\* log_errors(log_file, error_logs)
LogErrors ==
    /\ pc = "LogErrors"
    /\ log_file' = log_file \o log_errors(error_logs, 1)
    /\ pc' = "StopAnimation"
    /\ UNCHANGED <<choice, pathStatus, token, restart, open_file, total_size, cerr, loading,
                   anim, animIdx, exitCode, tree, aggVars, mapVars>>
    /\ UNCHANGED <<fmtVars, sortVars>>

\* loading = false
StopAnimation ==
    /\ pc = "StopAnimation"
    /\ loading' = FALSE
    /\ pc' = "Join"
    /\ UNCHANGED <<choice, pathStatus, token, restart, open_file, total_size, log_file, cerr,
                   anim, animIdx, exitCode, tree, aggVars, mapVars>>
    /\ UNCHANGED <<fmtVars, sortVars>>

\* animation_thread.join()
Join ==
    /\ pc = "Join"
    /\ anim = "exited"
    /\ anim' = "none"
    /\ animIdx' = 0
    /\ pc' = "PromptOpen"
    /\ UNCHANGED <<choice, pathStatus, token, restart, open_file, total_size, log_file, cerr,
                   loading, exitCode, tree, aggVars, mapVars>>
    /\ UNCHANGED <<fmtVars, sortVars>>

\* loading_animation_with_timer: while (loading) finds the flag set. `loading` is a
\* plain bool shared with main; every pass of the loop calls sleep_for and locks
\* print_mutex, so the flag is read again on each pass and the thread sees either
\* value main has written.
AnimTest ==
    /\ anim = "running" /\ loading
    /\ anim' = "frame"
    /\ UNCHANGED <<pc, choice, pathStatus, token, restart, open_file, total_size, log_file,
                   cerr, loading, animIdx, exitCode, tree, aggVars, mapVars>>
    /\ UNCHANGED <<fmtVars, sortVars>>

\* ... sleeps, prints a frame under print_mutex, idx = (idx + 1) % animation.size()
AnimFrame ==
    /\ anim = "frame"
    /\ print_mutex = 0
    /\ animIdx' = (animIdx + 1) % 4
    /\ anim' = "running"
    /\ UNCHANGED <<pc, choice, pathStatus, token, restart, open_file, total_size, log_file,
                   cerr, loading, exitCode, tree, aggVars, mapVars>>
    /\ UNCHANGED <<fmtVars, sortVars>>

\* while (loading) finds the flag cleared: the thread function returns
AnimExit ==
    /\ anim = "running" /\ ~loading
    /\ anim' = "exited"
    /\ UNCHANGED <<pc, choice, pathStatus, token, restart, open_file, total_size, log_file,
                   cerr, loading, animIdx, exitCode, tree, aggVars, mapVars>>
    /\ UNCHANGED <<fmtVars, sortVars>>

\* cin >> open_file (lines 314-326)
ReadOpenFile ==
    /\ pc = "PromptOpen"
    /\ \E a \in Answers :
          /\ token' = a
          /\ open_file' = ToLower(a)
          /\ log_file' = IF IsOpenYes(ToLower(a))
                         THEN Append(log_file, [kind |-> "opened", node |-> 1, size |-> 0,
                                                percentage |-> <<0, 1>>])
                         ELSE log_file
    /\ pc' = "PromptRepeat"
    /\ UNCHANGED <<choice, pathStatus, restart, total_size, cerr, loading, anim, animIdx,
                   exitCode, tree, aggVars, mapVars>>
    /\ UNCHANGED <<fmtVars, sortVars>>

\* cin >> restart (lines 333-357)
ReadRestart ==
    /\ pc = "PromptRepeat"
    /\ \E a \in Answers :
          /\ token' = a
          /\ IF IsRestartYes(ToLower(a))
             THEN /\ pc' = "PromptPath"
                  /\ LocalsGone
                  /\ cerr' = <<>>
                  /\ UNCHANGED exitCode
             ELSE IF IsRestartNo(ToLower(a))
             THEN /\ pc' = "Exited"
                  /\ exitCode' = 0
                  /\ restart' = ToLower(a)
                  /\ UNCHANGED <<pathStatus, open_file, total_size, log_file, cerr, mapVars>>
             ELSE /\ pc' = "PromptRepeat"
                  /\ restart' = ToLower(a)
                  /\ UNCHANGED <<pathStatus, open_file, total_size, log_file, cerr,
                                 exitCode, mapVars>>
    /\ UNCHANGED <<choice, loading, anim, animIdx, tree, aggVars>>
    /\ UNCHANGED <<fmtVars, sortVars>>

Init ==
    /\ tree \in Roots
    /\ AggIdle
    /\ ext_usage = EmptyMap /\ error_logs = <<>>
    /\ pc = "Menu" /\ choice = 0 /\ pathStatus = "none" /\ token = <<>> /\ restart = <<>>
    /\ open_file = <<>> /\ total_size = 0 /\ log_file = <<>> /\ cerr = <<>>
    /\ loading = FALSE /\ anim = "none" /\ animIdx = 0 /\ exitCode = -1
    /\ FmtIdle /\ SortIdle

Next ==
    \/ DrvCreateEntry \/ ReadChoice \/ EnterPath \/ ContinueLoop \/ PrintDiskInfo
    \/ Aggregate \/ TreeView \/ Extensions \/ LogErrors \/ StopAnimation \/ Join
    \/ AnimTest \/ AnimFrame \/ AnimExit \/ ReadOpenFile \/ ReadRestart

Spec == Init /\ [][Next]_vars

----------------------------------------------------------------------------
(* Claims about the aggregation *)

FaultFree(t) == \A i \in Nodes(t) : t[i].fault = "none"
FilesOf(t, d) == {n \in Nodes(t) : t[n].parent = d /\ t[n].kind = "file"}
SubdirsOf(t, d) == {n \in Nodes(t) : t[n].parent = d /\ t[n].kind = "dir"}
SizeOfFiles(t, d) == SumSet([n \in Nodes(t) |-> t[n].size], FilesOf(t, d))
Called == task # <<>>
Finished == Called /\ task[1] = "done"

\* C3: in a tree whose entries are all readable, the total a directory's
\* get_disk_usage returns is the sum of the sizes of its regular files plus the sum
\* of the totals returned for its subdirectories; in the threaded program every
\* subdirectory task has returned (been joined) when its parent returns.
C3_TotalIsFilesPlusSubdirs ==
    FaultFree(tree) =>
        /\ Called =>
              \A d \in Dirs(tree) : task[d] = "done" =>
                  /\ \A c \in SubdirsOf(tree, d) : task[c] = "done"
                  /\ ret[d] = SizeOfFiles(tree, d) + SumSet(ret, SubdirsOf(tree, d))
        /\ ~Called =>
              \A d \in Dirs(tree) :
                  dirchk_get_disk_usage(tree, d, <<>>).size =
                      SizeOfFiles(tree, d)
                      + SumSet([c \in Nodes(tree) |-> dirchk_get_disk_usage(tree, c, <<>>).size],
                               SubdirsOf(tree, d))

\* A readable tree with a file in the root and a file in a subdirectory has been walked.
C3_Witness ==
    /\ Finished /\ FaultFree(tree)
    /\ FilesOf(tree, 1) # {}
    /\ \E c \in SubdirsOf(tree, 1) : FilesOf(tree, c) # {} /\ ret[c] > 0 /\ ret[1] > ret[c]

\* The bytes a walk that continued past every failure would count under d.
RECURSIVE ReadableTotal(_, _)
ReadableTotal(t, d) ==
    IF t[d].fault = "open" THEN 0
    ELSE SumSet([n \in Nodes(t) |-> t[n].size], {n \in FilesOf(t, d) : t[n].fault = "none"})
         + SumSet([c \in Nodes(t) |-> IF t[c].kind = "dir" THEN ReadableTotal(t, c) ELSE 0],
                  {c \in SubdirsOf(t, d) : t[c].fault = "none" \/ t[c].fault = "open"})

\* C8: when reading one entry fails, every other readable entry of the directory,
\* listed before or after it, still contributes to the returned total and to the
\* extension totals, and so do the subdirectories already dispatched.
C8_WalkContinuesPastFailure ==
    Finished =>
        /\ ret[1] = ReadableTotal(tree, 1)
        /\ SumMap(ext_usage) = ReadableTotal(tree, 1)

SameBag(s1, s2) ==
    /\ Len(s1) = Len(s2)
    /\ \A x \in Range(s1) \cup Range(s2) :
          Cardinality({i \in 1..Len(s1) : s1[i] = x}) = Cardinality({i \in 1..Len(s2) : s2[i] = x})

EntryFaultFree(t) == \A i \in Nodes(t) : t[i].fault \in {"none", "open"}

\* C9: whatever the interleaving of the subdirectory tasks, when the root's call
\* returns, the total and the shared extension map are those of the walk run one
\* task after the other (and the same errors were recorded); when no entry fails
\* to be read they are those of dirchk's sequential walk.
C9_InterleavingIndependent ==
    Finished =>
        /\ LET s == get_disk_usage(tree, 1, EmptyMap, <<>>) IN
             /\ ret[1] = s.size
             /\ ext_usage = s.ext
             /\ SameBag(error_logs, s.errs)
        /\ EntryFaultFree(tree) =>
             LET q == dirchk_get_disk_usage(tree, 1, <<>>) IN
             /\ ret[1] = q.size
             /\ ext_usage = q.ext_usage

\* Two tasks have added files of the same extension to the shared map.
C9_Witness ==
    /\ Finished
    /\ \E d1, d2 \in Dirs(tree) :
          /\ d1 # d2
          /\ \E f1 \in FilesOf(tree, d1), f2 \in FilesOf(tree, d2) :
                /\ tree[f1].ext = tree[f2].ext
                /\ tree[f1].fault = "none" /\ tree[f2].fault = "none"
                /\ task[d1] = "done" /\ task[d2] = "done"
                /\ ret[d1] > 0 /\ ret[d2] > 0
                /\ MapGet(ext_usage, tree[f1].ext) >= tree[f1].size + tree[f2].size

----------------------------------------------------------------------------
(* Claims about a whole run *)

RECURSIVE SumSizes(_, _, _)
SumSizes(lines, kind, i) ==
    IF i > Len(lines) THEN 0
    ELSE (IF lines[i].kind = kind THEN lines[i].size ELSE 0) + SumSizes(lines, kind, i + 1)

\* main has passed print_sorted_extensions / log_errors for the entered directory
ExtensionsReported ==
    /\ pathStatus = "dir"
    /\ pc \in {"LogErrors", "StopAnimation", "Join", "PromptOpen", "PromptRepeat", "Exited"}
ErrorsLogged ==
    /\ pathStatus = "dir"
    /\ pc \in {"StopAnimation", "Join", "PromptOpen", "PromptRepeat", "Exited"}

\* C1: when the walk met no access error, the extension totals handed to the
\* extension reporter sum to the total byte count computed for the root, in the
\* threaded program (after print_tree_view has passed the same map on) and in the
\* sequential one.
C1_ExtensionTotalsSumToTotal ==
    (FaultFree(tree) /\ ExtensionsReported) =>
        /\ SumSizes(log_file, "ext", 1) = total_size
        /\ SumMap(ext_usage) = total_size
        /\ SumMap(dirchk_main(tree).ext_usage) = dirchk_main(tree).size

\* The tree holds exactly one unreadable entry: subdirectory u, which cannot be opened.
OnlyUnreadable(t, u) ==
    /\ u # 1 /\ t[u].kind = "dir" /\ t[u].fault = "open"
    /\ \A n \in Nodes(t) \ {u} : t[n].fault = "none"

ErrorsNaming(errs, u) == Cardinality({i \in 1..Len(errs) : errs[i] = u})

\* C2: after a complete run on a tree whose only unreadable entry is one
\* subdirectory that cannot be opened, exactly one error entry is recorded for it.
C2_OneErrorEntry ==
    \A u \in Nodes(tree) : (OnlyUnreadable(tree, u) /\ ErrorsLogged) =>
        /\ ErrorsNaming(error_logs, u) = 1
        /\ Len(error_logs) = 1
        /\ SumSizes(log_file, "error", 1) = 1
        /\ ErrorsNaming(dirchk_main(tree).errs, u) = 1

\* C5: when the entered path does not exist or is not a directory, an error is
\* emitted, nothing is analysed or reported, and the driver is at PromptPath again.
C5_InvalidPathBackToPromptPath ==
    [][(pc = "PromptPath" /\ pathStatus' \in {"file", "missing"}) =>
          /\ cerr' # <<>>
          /\ log_file' = <<>> /\ ext_usage' = EmptyMap /\ total_size' = 0
          /\ pc' = "PromptPath"]_vars

\* C6: at the repeat prompt y or yes (any letter case) leads to PromptPath, n or no
\* (any letter case) ends the program with exit code 0, anything else leads back to
\* the repeat prompt.
C6_RepeatPrompt ==
    [][pc = "PromptRepeat" =>
          IF ToLower(token') \in {<<"y">>, <<"y", "e", "s">>}
          THEN pc' = "PromptPath" /\ exitCode' = -1
          ELSE IF ToLower(token') \in {<<"n">>, <<"n", "o">>}
          THEN pc' = "Exited" /\ exitCode' = 0
          ELSE pc' = "PromptRepeat" /\ exitCode' = -1]_vars

\* C10: no filesystem error ends the process: every failure is caught where it
\* occurs, the run goes on to the next driver state, the status thread is stopped
\* and joined, and the process ends only when the user asks for it.
C10_NoFilesystemErrorTerminates ==
    /\ pc # "Terminated"
    /\ pc \in {"PromptOpen", "PromptRepeat", "PromptPath", "Exited"} => anim = "none"
    /\ pc = "Exited" => exitCode = 0 /\ (choice = 2 \/ ToLower(token) = <<"n">>)

====
